---------------------------- MODULE Spec2Model ----------------------------
(***************************************************************************)
(* Model of the job-board crawler of tools/offline_job_crawl.py:          *)
(* get_job_details (one category crawl: CSV initialisation, browser       *)
(* launch, bounded-retry navigation, scroll / card / pager loop, batch    *)
(* write, teardown) and crawl_jobs / main (the run over the requested     *)
(* categories and the combined JSONL file).                                *)
(*                                                                         *)
(* The browser and the site are the environment: every Playwright call    *)
(* may complete, time out or raise, the site decides how many cards a     *)
(* page shows, whether a click is answered and when the answer reaches    *)
(* the response listener.                                                  *)
(***************************************************************************)
EXTENDS Integers, Sequences, FiniteSets, TLC

\* ------------------------------------------------------------------ bounds
MaxRetriesArg == 3   \* max_retries is drawn from 1..MaxRetriesArg
MaxCountArg   == 2   \* max_count is drawn from 1..MaxCountArg
MaxPages      == 2   \* the site shows at most this many result pages
MaxCards      == 2   \* cards rendered per page: 0..MaxCards
MaxPostings   == 2   \* job postings the site has for a category
MaxHeight     == 2   \* document.body.scrollHeight ranges over 1..MaxHeight
CountCap      == 2   \* counters of a crawl of an endless site are followed up to it
CrawlerCards  == 3   \* cards the page of tools/crawler.py renders at most
MaxPrior      == 1   \* rows the combined file of an earlier run holds
MaxJobs       == 2   \* length of the requested job-name list
MaxLate       == 1   \* answers still under way when the wait for a card times out
FewPostings   == 1   \* postings per category in the runs of SpecNav and SpecRun
BigPostings   == 4   \* postings of the larger, punctual site of SpecBig
BigCountArg   == 3   \* max_count is drawn from 1..BigCountArg in SpecBig
RunCountArg   == 1   \* --max-count is drawn from 1..RunCountArg in SpecRun
MaxMinLength  == 1   \* min_description_length is drawn from 0..MaxMinLength and 200
MaxItems      == 2   \* comma-separated items of --jobs
MaxRows       == 2   \* data rows of a category file handed to append_csv_to_jsonl
MaxAppends    == 2   \* calls of append_csv_to_jsonl on one combined file

\* ------------------------------------------------------- program constants
DEFAULT_MAX_RETRIES == 3   \* get_job_details(max_retries: int = 3)
DEFAULT_MIN_DESCRIPTION_LENGTH == 200  \* min_description_length: int = 200
SCROLLS             == 5   \* for scroll_count in range(5)
MAX_WAIT_POLLS      == 15  \* max_wait = 3, wait_time += 0.2: the 15th sum of the
                           \* floats is 3.0000000000000004, the first not < 3

\* job_dict (the two first keys; every key behaves alike)
job_dict == [Java |-> "100101", Python |-> "100109"]
JobNames == DOMAIN job_dict

VARIABLES
    \* ---- crawl_jobs / main
    runPc,            \* position in main / crawl_jobs
    append,           \* args.append
    raw_jobs,         \* args.jobs: [given, items], see RawInputs
    job_names,        \* the parsed --jobs list
    calls,            \* the calls of get_job_details made by crawl_jobs, in order:
                      \* [job, result] (history)
    jobIdx,           \* index of the category being crawled (for job_name in job_names)
    combined,         \* the combined JSONL file: sequence of lines
    priorRows,        \* lines the combined file held when the run started
    acceptedTotal,    \* sum of valid_count over the category crawls of the run
    appended,         \* what the last call of append_csv_to_jsonl returned
    \* ---- get_job_details: arguments
    max_count, max_retries, min_description_length,
    \* ---- the site
    site,             \* its shape: [pages, cards, postings, late, descs], see Site
    shown,            \* postings the site has rendered as cards in this crawl
    \* ---- get_job_details: position and resources
    pc,               \* position in get_job_details
    csv,              \* the category CSV file: [exists, header, rows]
    browser,          \* "none" | "open" | "closed" (closed = browser.close() has run)
    playwright,       \* "none" | "started" | "stopped" (the sync_playwright() context)
    failure,          \* why get_job_details raised ("none" while it has not)
    sessions,         \* browser sessions of the run that are live
    \* ---- navigation
    attempt,          \* the for-loop variable of the retry loop
    attempts,         \* navigation attempts started so far (history)
    reloads,          \* page reloads issued so far (history)
    \* ---- response listener
    captured_responses, \* the buffer the listener appends to
    inflight,         \* responses the site has sent that the listener has not seen yet
    \* ---- enumeration loop
    valid_count, filtered_count, filtered_english_count, page_num, jobs_buffer,
    last_height, scroll_count,
    cards,            \* len(cards) of the current page
    cardIdx,          \* 1-based position of the current card in cards
    wait_time,        \* in polls of 0.2 s
    clicks,           \* card.click() calls that returned (history)
    exitReason,       \* which break ended the while loop ("none" while it runs)
    \* ---- what the call has registered and printed
    init_scripts,     \* add_init_script calls made on the page of this session
    resolved,         \* clicked cards whose handling has ended (history)
    next_button,      \* the next-page control as the pager finds it: [count, class]
    next_clicks,      \* next_button.click() calls that returned (history)
    settled,          \* a wait_for_timeout has run since the last card.click()
    accepted_at,      \* the cards at whose turn a record was accepted (history)
    \* ---- tools/crawler.py, the single-page get_job_details
    count,            \* records buffered so far
    max_jobs,         \* min(len(cards), max_count)
    clicked,          \* positions of the cards whose click returned (history)
    \* ---- frontend/module_order_manager.py
    module_order,     \* st.session_state.module_order
    pressed,          \* the button whose press made the last rerun (history)
    report            \* the closing report: "none", "stats" (the three counters)
                      \* or "no_data" (the warning that nothing was captured)

runVars   == <<runPc, append, raw_jobs, job_names, calls, jobIdx, combined, priorRows,
               acceptedTotal, appended>>
argVars   == <<max_count, max_retries, min_description_length, site>>
navVars   == <<attempt, attempts, reloads>>
countVars == <<valid_count, filtered_count, filtered_english_count, jobs_buffer>>
loopVars  == <<page_num, last_height, scroll_count, cards, cardIdx, wait_time,
               clicks, exitReason>>
respVars  == <<captured_responses, inflight>>
resVars   == <<csv, browser, playwright, failure, sessions>>
histVars  == <<next_button, next_clicks, settled, accepted_at>>
logVars   == <<init_scripts, report, resolved, histVars>>
crawlerVars == <<count, max_jobs, clicked>>
frontVars == <<module_order, pressed>>
toolVars == <<runVars, argVars, pc, resVars, navVars, respVars, countVars, loopVars,
              shown, logVars, crawlerVars>>
vars == <<toolVars, frontVars>>

\* ------------------------------------------- frontend: the default order
\* DEFAULT_MODULE_ORDER; get_default_module_order() returns a copy of it
DEFAULT_MODULE_ORDER ==
    <<"personalSummary", "education", "skills", "workExperience",
      "internshipExperience", "projects", "awards">>
get_default_module_order == DEFAULT_MODULE_ORDER

\* no button has been pressed yet
NoButton == [kind |-> "none", idx |-> 0]


\* ------------------------------------------------------------ site records
\* A description is <<total characters, ASCII-alphabetic characters>>.
\* The site's descriptions: one too short (and English), one that passes both
\* filters, one long enough and English.
Descs == {<<150, 150>>, <<200, 0>>, <<200, 200>>}

\* The descriptions of the site that a run of crawl_jobs visits: they pass both
\* filters (what the filters reject is followed in the crawl of one category).
RunDescs == {<<200, 0>>}

\* Descriptions around the limits of the two filters: empty, short with and
\* without ASCII letters, and of the default minimum length with an ASCII-letter
\* ratio of 0, exactly 0.3, just above 0.3, and 0.8
FilterDescs == {<<0, 0>>, <<150, 0>>, <<150, 150>>,
                <<200, 0>>, <<200, 60>>, <<200, 61>>, <<200, 160>>}

\* A site with `pages` result pages of at most `cards` cards, `postings` job
\* postings in all, of whose answers at most `late` are still under way when
\* the wait for a card times out, and whose descriptions are drawn from `descs`
Site(pages, cardsPerPage, postings, late, descs) ==
    [pages |-> pages, cards |-> cardsPerPage, postings |-> postings, late |-> late,
     descs |-> descs, endless |-> FALSE]

\* A site without a last page: every page shows up to cardsPerPage cards and
\* its next-page control can stay usable for ever.
EndlessSite(cardsPerPage, descs) ==
    [pages |-> 0, cards |-> cardsPerPage, postings |-> 0, late |-> 0,
     descs |-> descs, endless |-> TRUE]

Min(a, b) == IF a <= b THEN a ELSE b

\* n + 1.  On an endless site the counters are followed up to CountCap only:
\* the pages after that look alike.
Tick(n) == IF site.endless /\ n >= CountCap THEN n ELSE n + 1

\* What the site may answer to the click on card `job`:
\*   "detail"  a JSON object with zpData.jobInfo / brandComInfo of that job,
\*   "odd"     JSON that is not such an object (json_data.get raises).
Answers(job) ==
    {[job |-> job, kind |-> "detail", desc |-> d] : d \in site.descs}
    \cup {[job |-> job, kind |-> "odd", desc |-> <<0, 0>>]}

CurrentCard == <<page_num, cardIdx>>

\* ----------------------------------------------------------------- filters
\* len(job_description) < min_description_length
IsShort(d) == d[1] < min_description_length

\* english_ratio = english_chars / total_chars if total_chars > 0 else 0;
\* english_ratio > 0.3, over the integers: 10 * english > 3 * total.
EnglishRatioAtLeast(d) == IF d[1] > 0 THEN 10 * d[2] >= 3 * d[1] ELSE FALSE
EnglishRatioUnguarded(d) == IF d[1] > 0 THEN 10 * d[2] > 3 * d[1] ELSE TRUE
EnglishRatioExceeds(d) == IF d[1] > 0 THEN 10 * d[2] > 3 * d[1] ELSE FALSE

\* job_data built from the response at the head of the buffer
JobData(rsp) == [job |-> rsp.job, desc |-> rsp.desc]

\* -------------------------------------------------------- get_job_details
\* the category file after open(output_path, "w") and writeheader()
NewFileHeaderless == [exists |-> TRUE, header |-> FALSE, rows |-> <<>>]
NewFile == [exists |-> TRUE, header |-> TRUE, rows |-> <<>>]

\* output_path before the call has created it (its name carries the call's time)
NoFile == [exists |-> FALSE, header |-> FALSE, rows |-> <<>>]

\* csv.DictWriter(...).writeheader() on a file opened with "w"
InitCsv ==
    /\ pc = "start"
    /\ csv' = NewFile
    /\ pc' = "launch"
    /\ UNCHANGED <<frontVars, runVars, argVars, browser, playwright, sessions, failure, navVars,
                   respVars, countVars, loopVars>>
    /\ UNCHANGED <<crawlerVars, shown, logVars>>

\* sync_playwright(), launch_persistent_context, new_page, page.on("response")
LaunchBrowser ==
    /\ pc = "launch"
    /\ playwright' = "started"
    /\ browser' = "open"
    /\ sessions' = sessions + 1
    /\ captured_responses' = <<>>
    /\ inflight' = {}
    /\ pc' = "init_script"
    /\ UNCHANGED <<frontVars, runVars, argVars, csv, failure, navVars, countVars, loopVars>>
    /\ UNCHANGED <<crawlerVars, shown, logVars>>

\* the number of init scripts of the page after browser_page.add_init_script(...)
InitScriptsUnregistered == init_scripts
InitScriptsRegistered == init_scripts + 1

\* browser_page.add_init_script(...), then the retry loop starts:
\* for attempt in range(max_retries)
AddInitScript ==
    /\ pc = "init_script"
    /\ init_scripts' = InitScriptsRegistered
    /\ attempt' = 0
    /\ attempts' = 1
    /\ pc' = "nav_warmup"
    /\ UNCHANGED <<frontVars, runVars, argVars, resVars, reloads, respVars, countVars, loopVars>>
    /\ UNCHANGED <<crawlerVars, shown, report, resolved, histVars>>

\* sync_playwright() or launch_persistent_context raises (no browser, e.g. the
\* profile directory is locked, or the sync API refuses to start)
LaunchRaises ==
    /\ pc = "launch"
    /\ failure' = "launch_failed"
    /\ pc' = "raised"
    /\ UNCHANGED <<frontVars, runVars, argVars, csv, browser, playwright, sessions, navVars, respVars,
                   countVars, loopVars>>
    /\ UNCHANGED <<crawlerVars, shown, logVars>>

\* the live sessions after the `with sync_playwright()` block is left with the
\* browser open: its exit stops the Playwright driver, and the driver takes the
\* browser it launched down with it
SessionsAfterStopLeaked == sessions
SessionsAfterStop == sessions - 1

\* An exception that leaves get_job_details before the try/finally of the loop:
\* only the `with sync_playwright()` block is unwound (browser.close() is not
\* called).
RaiseBeforeTry(reason) ==
    /\ pc' = "raised"
    /\ failure' = reason
    /\ playwright' = "stopped"
    /\ sessions' = SessionsAfterStop
    /\ inflight' = {}
    /\ UNCHANGED <<browser, csv, captured_responses>>

\* if attempt == max_retries - 1
IsLastAttemptEarly == attempt = max_retries - 2
IsLastAttempt == attempt = max_retries - 1

NavNextSkippingTarget(step) ==
    CASE step = "nav_warmup" -> "nav_select"
      [] step = "nav_target" -> "nav_select"
      [] step = "nav_select" -> "loop_init"
NavNext(step) == CASE step = "nav_warmup" -> "nav_target"
                   [] step = "nav_target" -> "nav_select"
                   [] step = "nav_select" -> "loop_init"

\* One of goto(baidu), goto(url), wait_for_selector(".job-info") [+ the 1 s wait]
NavStepOk ==
    /\ pc \in {"nav_warmup", "nav_target", "nav_select"}
    /\ pc' = NavNext(pc)
    /\ UNCHANGED <<frontVars, runVars, argVars, resVars, navVars, respVars, countVars, loopVars>>
    /\ UNCHANGED <<crawlerVars, shown, logVars>>

\* except PlaywrightTimeoutError
NavStepTimeout ==
    /\ pc \in {"nav_warmup", "nav_target", "nav_select"}
    /\ IF IsLastAttempt
         THEN RaiseBeforeTry("retries_exhausted")
         ELSE /\ pc' = "nav_reload"
              /\ UNCHANGED <<resVars, respVars>>
    /\ UNCHANGED <<frontVars, runVars, argVars, navVars, countVars, loopVars>>
    /\ UNCHANGED <<crawlerVars, shown, logVars>>

\* any other exception of a navigation step is not caught
NavStepError ==
    /\ pc \in {"nav_warmup", "nav_target", "nav_select"}
    /\ RaiseBeforeTry("navigation_error")
    /\ UNCHANGED <<frontVars, runVars, argVars, navVars, countVars, loopVars>>
    /\ UNCHANGED <<crawlerVars, shown, logVars>>

\* browser_page.reload(timeout=60000), then the next iteration of the for loop
ReloadOk ==
    /\ pc = "nav_reload"
    /\ reloads' = reloads + 1
    /\ IF attempt + 1 < max_retries
         THEN /\ attempt' = attempt + 1
              /\ attempts' = attempts + 1
              /\ pc' = "nav_warmup"
         ELSE /\ pc' = "loop_init"      \* range(max_retries) is used up
              /\ UNCHANGED <<attempt, attempts>>
    /\ UNCHANGED <<frontVars, runVars, argVars, resVars, respVars, countVars, loopVars>>
    /\ UNCHANGED <<crawlerVars, shown, logVars>>

\* the reload is issued inside the except clause: what it raises is not caught
ReloadFails ==
    /\ pc = "nav_reload"
    /\ reloads' = reloads + 1
    /\ RaiseBeforeTry("reload_failed")
    /\ UNCHANGED <<frontVars, runVars, argVars, attempt, attempts, countVars, loopVars>>
    /\ UNCHANGED <<crawlerVars, shown, logVars>>

\* count = 0 ... jobs_buffer = []; try: pbar = tqdm(...)
\* (the retry loop is over: its variable and the navigation history are not
\* read again and are reset)
LoopInit ==
    /\ pc = "loop_init"
    /\ valid_count' = 0
    /\ filtered_count' = 0
    /\ filtered_english_count' = 0
    /\ jobs_buffer' = <<>>
    /\ page_num' = 1
    /\ attempt' = 0 /\ attempts' = 0 /\ reloads' = 0
    /\ pc' = "loop_head"
    /\ UNCHANGED <<frontVars, runVars, argVars, resVars, respVars, last_height,
                   scroll_count, cards, cardIdx, wait_time, clicks, exitReason>>
    /\ UNCHANGED <<crawlerVars, shown, logVars>>

\* if valid_count >= max_count (the card loop's and the page loop's test)
QuotaReachedLate == valid_count > max_count
QuotaReached == valid_count >= max_count

\* leaving the while loop
Break(reason) ==
    /\ exitReason' = reason
    /\ pc' = "write"

\* an exception inside the try block that no inner handler catches
RaiseInTry(reason) ==
    /\ failure' = reason
    /\ pc' = "finally"

\* while valid_count < max_count: last_height = evaluate(scrollHeight)
LoopHead ==
    /\ pc = "loop_head"
    /\ IF ~QuotaReached
         THEN /\ \E h \in 1..MaxHeight : last_height' = h
              /\ scroll_count' = 0
              /\ pc' = "scroll"
              /\ UNCHANGED exitReason
         ELSE /\ Break("quota")
              /\ UNCHANGED <<last_height, scroll_count>>
    /\ UNCHANGED <<frontVars, runVars, argVars, resVars, navVars, respVars, countVars,
                   page_num, cards, cardIdx, wait_time, clicks>>
    /\ UNCHANGED <<crawlerVars, shown, logVars>>

\* one iteration of for scroll_count in range(5): scrollTo the bottom, wait
\* 800 ms, measure new_height, break when it equals last_height.  When the loop
\* ends scroll_count is the index of its last iteration and last_height the
\* last measurement.
ScrollStep ==
    /\ pc = "scroll"
    /\ \E new_height \in 1..MaxHeight :
         IF new_height = last_height \/ scroll_count + 1 = SCROLLS
           THEN /\ pc' = "cards"
                /\ last_height' = new_height
                /\ scroll_count' = scroll_count
           ELSE /\ last_height' = new_height
                /\ scroll_count' = scroll_count + 1
                /\ pc' = "scroll"
    /\ UNCHANGED <<frontVars, runVars, argVars, resVars, navVars, respVars, countVars,
                   page_num, cards, cardIdx, wait_time, clicks, exitReason>>
    /\ UNCHANGED <<crawlerVars, shown, logVars>>

\* evaluate / wait_for_timeout / locator(...).all() raising inside the while loop
PageStepRaises ==
    /\ pc \in {"scroll", "cards"}
    /\ RaiseInTry("page_error")
    /\ last_height' = 0
    /\ scroll_count' = 0
    /\ UNCHANGED <<frontVars, runVars, argVars, csv, browser, playwright, sessions, navVars, respVars,
                   countVars, page_num, cards, cardIdx, wait_time, clicks, exitReason>>
    /\ UNCHANGED <<crawlerVars, shown, logVars>>

\* the most cards the site can render on the current page
CardsOffered ==
    IF site.endless THEN site.cards ELSE Min(site.cards, site.postings - shown)

\* cards = browser_page.locator(".job-info").all(); if len(cards) == 0: break
\* (last_height and scroll_count are not read again before the while loop
\* assigns them anew, and are reset here)
EnumerateCards ==
    /\ pc = "cards"
    /\ \E n \in 0..CardsOffered :
         /\ cards' = n
         /\ shown' = IF site.endless THEN shown ELSE shown + n
         /\ IF n = 0
              THEN Break("no_cards") /\ UNCHANGED cardIdx
              ELSE cardIdx' = 1 /\ pc' = "card_head" /\ UNCHANGED exitReason
    /\ last_height' = 0
    /\ scroll_count' = 0
    /\ UNCHANGED <<frontVars, runVars, argVars, resVars, navVars, respVars, countVars,
                   page_num, wait_time, clicks>>
    /\ UNCHANGED <<crawlerVars, logVars>>


\* ------------------------------------------------------ the card loop
\* the handling of a card that was clicked ends: `continue`, the except clause
\* or the end of the loop body
CardLeftPending == UNCHANGED resolved
CardResolved == resolved' = Tick(resolved)

\* the for loop moves to the next card (continue, or the end of the body)
NextCard ==
    /\ cardIdx' = cardIdx + 1
    /\ wait_time' = 0
    /\ pc' = "card_head"

\* for card in cards: if valid_count >= max_count: break;
\* try: captured_responses.clear()
CardHead ==
    /\ pc = "card_head"
    /\ IF cardIdx > cards \/ QuotaReached
         THEN /\ pc' = "after_cards"
              /\ UNCHANGED captured_responses
         ELSE /\ captured_responses' = <<>>
              /\ pc' = "card_scroll"
    /\ UNCHANGED <<frontVars, runVars, argVars, resVars, navVars, inflight, countVars, loopVars>>
    /\ UNCHANGED <<crawlerVars, shown, logVars>>

\* card.scroll_into_view_if_needed() returns
ScrollIntoView ==
    /\ pc = "card_scroll"
    /\ pc' = "card_click"
    /\ UNCHANGED <<frontVars, runVars, argVars, resVars, navVars, respVars, countVars, loopVars>>
    /\ UNCHANGED <<crawlerVars, shown, logVars>>

\* card.click() returns; the site answers the click or stays silent
Click ==
    /\ pc = "card_click"
    /\ clicks' = Tick(clicks)
    /\ wait_time' = 0
    /\ \/ \E rsp \in Answers(CurrentCard) : inflight' = inflight \cup {rsp}
       \/ UNCHANGED inflight
    /\ pc' = "card_wait"
    /\ settled' = FALSE
    /\ UNCHANGED <<frontVars, runVars, argVars, resVars, navVars, captured_responses, countVars,
                   page_num, last_height, scroll_count, cards, cardIdx, exitReason>>
    /\ UNCHANGED <<crawlerVars, shown, init_scripts, report, resolved, next_button, next_clicks,
                   accepted_at>>

\* scroll_into_view_if_needed() or click() raises: except Exception, next card
CardStepRaises ==
    /\ pc \in {"card_scroll", "card_click"}
    /\ NextCard
    /\ UNCHANGED <<frontVars, runVars, argVars, resVars, navVars, respVars, countVars,
                   page_num, last_height, scroll_count, cards, clicks, exitReason>>
    /\ UNCHANGED <<crawlerVars, shown, logVars>>

\* handle_response / _parse_response, run by the Playwright dispatcher while the
\* main flow is inside a Playwright call (scroll_into_view_if_needed, click,
\* wait_for_timeout): data = response.json(); captured_responses.append(data),
\* or response.json() raises and the response is dropped with a message.
\* (A response delivered during any other call is cleared before it is read.)
handle_response ==
    /\ pc \in {"card_scroll", "card_wait"}
    /\ \E rsp \in inflight :
         /\ inflight' = inflight \ {rsp}
         /\ \/ captured_responses' = Append(captured_responses, rsp)
            \/ UNCHANGED captured_responses
    /\ UNCHANGED <<frontVars, runVars, argVars, pc, resVars, navVars, countVars, loopVars>>
    /\ UNCHANGED <<crawlerVars, shown, logVars>>

\* while len(captured_responses) == 0 and wait_time < max_wait:
\*     wait_for_timeout(200); wait_time += 0.2
Poll ==
    /\ pc = "card_wait"
    /\ Len(captured_responses) = 0
    /\ wait_time < MAX_WAIT_POLLS
    /\ wait_time' = wait_time + 1
    /\ settled' = TRUE
    /\ UNCHANGED <<frontVars, runVars, argVars, pc, resVars, navVars, respVars, countVars,
                   page_num, last_height, scroll_count, cards, cardIdx, clicks,
                   exitReason>>
    /\ UNCHANGED <<crawlerVars, shown, init_scripts, report, resolved, next_button, next_clicks,
                   accepted_at>>

\* the wait loop ends; if len(captured_responses) == 0: continue.
\* Of the answers the listener has not seen by now, at most site.late are still
\* under way; the network has lost the others.
WaitEnds ==
    /\ pc = "card_wait"
    /\ ~(Len(captured_responses) = 0 /\ wait_time < MAX_WAIT_POLLS)
    /\ IF Len(captured_responses) = 0
         THEN NextCard /\ CardResolved
         ELSE pc' = "card_parse" /\ UNCHANGED <<cardIdx, wait_time, resolved>>
    /\ \E late \in SUBSET inflight :
         /\ Cardinality(late) <= site.late
         /\ inflight' = late
    /\ UNCHANGED <<frontVars, runVars, argVars, resVars, navVars, captured_responses, countVars,
                   page_num, last_height, scroll_count, cards, clicks, exitReason>>
    /\ UNCHANGED <<crawlerVars, shown, init_scripts, report, histVars>>

\* the two filters applied in the opposite order
DecisionRatioFirst(rsp) ==
    CASE rsp.kind # "detail"            -> "error"
      [] rsp.kind = "detail" /\ EnglishRatioExceeds(rsp.desc) -> "english"
      [] rsp.kind = "detail" /\ ~EnglishRatioExceeds(rsp.desc) /\ IsShort(rsp.desc)
                                        -> "short"
      [] OTHER                          -> "accept"

\* What the code between `json_data = captured_responses[0]` and the end of
\* the try body does with a response: "error" (a .get raises), "short"
\* (filter 1, continue), "english" (filter 2, continue) or "accept"
Decision(rsp) ==
    CASE rsp.kind # "detail"            -> "error"
      [] rsp.kind = "detail" /\ IsShort(rsp.desc) -> "short"
      [] rsp.kind = "detail" /\ ~IsShort(rsp.desc) /\ EnglishRatioExceeds(rsp.desc)
                                        -> "english"
      [] OTHER                          -> "accept"

\* filter 1 was taken: filtered_count += 1 (a response whose parsing raised
\* goes to the except clause and is counted nowhere)
CountedShortOrError(dec) == dec \in {"short", "error"}
CountedShort(dec) == dec = "short"

\* the statements after the two filters are reached (no `continue` was taken)
BufferedDespiteShort(dec) == dec \in {"accept", "short"}
Buffered(dec) == dec = "accept"

\* jobs_buffer.append(job_data)
BufferPrepend(rec) == <<rec>> \o jobs_buffer
BufferOverwrite(rec) == <<rec>>
BufferAppend(rec) == Append(jobs_buffer, rec)

\* what the category file holds after a record was accepted into jobs_buffer
CsvOnAcceptEager(rec) == [csv EXCEPT !.rows = Append(@, rec)]
CsvOnAccept(rec) == csv

\* json_data = captured_responses[0]
LastCaptured == captured_responses[Len(captured_responses)]
FirstCaptured == captured_responses[1]

\* the wait that ends the handling of a response: wait_for_timeout(300) after
\* either filter, wait_for_timeout(500) after an accepted record; the except
\* clause only writes a message
SettledAfter(dec) == IF dec = "error" THEN settled ELSE TRUE

\* json_data = captured_responses[0]; the two filters; jobs_buffer.append;
\* except Exception; the settle delay; next card
ProcessResponse ==
    /\ pc = "card_parse"
    /\ LET rsp == FirstCaptured
           dec == Decision(rsp)
       IN  /\ filtered_count' = IF CountedShort(dec) THEN Tick(filtered_count)
                                                    ELSE filtered_count
           /\ filtered_english_count' =
                IF dec = "english" THEN filtered_english_count + 1
                                   ELSE filtered_english_count
           /\ jobs_buffer' = IF Buffered(dec) THEN BufferAppend(JobData(rsp))
                                              ELSE jobs_buffer
           /\ valid_count' = IF Buffered(dec) THEN valid_count + 1 ELSE valid_count
           /\ csv' = IF Buffered(dec) THEN CsvOnAccept(JobData(rsp)) ELSE csv
           /\ settled' = SettledAfter(dec)
           /\ accepted_at' = IF Buffered(dec) THEN Append(accepted_at, CurrentCard)
                                               ELSE accepted_at
    /\ NextCard /\ CardResolved
    /\ UNCHANGED <<frontVars, runVars, argVars, browser, playwright, sessions, failure, navVars, respVars,
                   page_num, last_height, scroll_count, cards, clicks, exitReason>>
    /\ UNCHANGED <<crawlerVars, shown, init_scripts, report, next_button, next_clicks>>

\* ------------------------------------------------------------- the pager
\* The next-page control as locator(".options-pages a.next") finds it: count is
\* next_button.count(), class is get_attribute("class"), NoClass when the
\* attribute is missing (None).
NoClass == "(none)"
Classes == {NoClass, "", "next", "next disabled"}
NotLooked == [count |-> 0, class |-> NoClass]
NextButtons == {NotLooked} \cup [count : {1}, class : Classes]

\* "disabled" in is_disabled
ContainsDisabled(class) == class \in {"next disabled"}

\* the test on the class omitted
IsDisabledNever(button) == FALSE
\* is_disabled and "disabled" in is_disabled
IsDisabled(button) ==
    /\ button.class \notin {NoClass, ""}
    /\ ContainsDisabled(button.class)

\* next_button.count() > 0 and the control is not disabled: the pager goes on
\* to click it
hasNextPage(button) == button.count > 0 /\ ~IsDisabled(button)

\* if valid_count >= max_count: break; else the pager looks for the control.
\* (The site offers a usable control on pages before its last one only.)
AfterCards ==
    /\ pc = "after_cards"
    /\ IF QuotaReached
         THEN Break("quota") /\ UNCHANGED next_button
         ELSE /\ pc' = "pager"
              /\ \E b \in NextButtons :
                   /\ hasNextPage(b) => (site.endless \/ page_num < site.pages)
                   /\ next_button' = b
              /\ UNCHANGED exitReason
    /\ UNCHANGED <<frontVars, runVars, argVars, resVars, navVars, respVars, countVars,
                   page_num, last_height, scroll_count, cards, cardIdx, wait_time,
                   clicks>>
    /\ UNCHANGED <<crawlerVars, shown, init_scripts, report, resolved, next_clicks, settled,
                   accepted_at>>

\* next_button.count() == 0
PagerAbsent ==
    /\ pc = "pager"
    /\ next_button.count = 0
    /\ Break("no_next_button")
    /\ next_button' = NotLooked
    /\ UNCHANGED <<frontVars, runVars, argVars, resVars, navVars, respVars, countVars,
                   page_num, last_height, scroll_count, cards, cardIdx, wait_time,
                   clicks>>
    /\ UNCHANGED <<crawlerVars, shown, init_scripts, report, resolved, next_clicks, settled,
                   accepted_at>>

\* "disabled" in next_button.get_attribute("class")
PagerDisabled ==
    /\ pc = "pager"
    /\ next_button.count > 0
    /\ IsDisabled(next_button)
    /\ Break("last_page")
    /\ next_button' = NotLooked
    /\ UNCHANGED <<frontVars, runVars, argVars, resVars, navVars, respVars, countVars,
                   page_num, last_height, scroll_count, cards, cardIdx, wait_time,
                   clicks>>
    /\ UNCHANGED <<crawlerVars, shown, init_scripts, report, resolved, next_clicks, settled,
                   accepted_at>>

\* next_button.click() returns
PagerClick ==
    /\ pc = "pager"
    /\ next_button.count > 0
    /\ ~IsDisabled(next_button)
    /\ next_clicks' = Tick(next_clicks)
    /\ next_button' = NotLooked
    /\ pc' = "pager_settle"
    /\ UNCHANGED <<frontVars, runVars, argVars, resVars, navVars, respVars, countVars, loopVars>>
    /\ UNCHANGED <<crawlerVars, shown, init_scripts, report, resolved, settled, accepted_at>>

\* page_num += 1
PageNumKept == page_num
PageNumIncremented == Tick(page_num)

\* wait_for_timeout(2000); page_num += 1
PagerAdvance ==
    /\ pc = "pager_settle"
    /\ page_num' = PageNumIncremented
    /\ pc' = "loop_head"
    /\ UNCHANGED <<frontVars, runVars, argVars, resVars, navVars, respVars, countVars,
                   last_height, scroll_count, cards, cardIdx, wait_time, clicks,
                   exitReason>>
    /\ UNCHANGED <<crawlerVars, shown, logVars>>

\* except Exception as e: pbar.write("翻页失败"); break
OnAdvanceFailureRaise ==
    /\ exitReason' = "advance_failed"
    /\ RaiseInTry("advance_failed")
OnAdvanceFailure ==
    /\ Break("advance_failed")
    /\ UNCHANGED failure

\* locating, inspecting or clicking the next-page control raises, or the
\* wait_for_timeout(2000) after the click does
PagerRaises ==
    /\ pc \in {"pager", "pager_settle"}
    /\ OnAdvanceFailure
    /\ next_button' = NotLooked
    /\ UNCHANGED <<frontVars, runVars, argVars, csv, browser, playwright, sessions, navVars, respVars,
                   countVars, page_num, last_height, scroll_count, cards, cardIdx,
                   wait_time, clicks>>
    /\ UNCHANGED <<crawlerVars, shown, init_scripts, report, resolved, next_clicks, settled,
                   accepted_at>>

\* ------------------------------------------------------ write and teardown
\* what is printed after the loop: with records, the number written and the
\* three counters; without, only "未抓取到任何职位数据"
ReportAfterLoop == IF jobs_buffer # <<>> THEN "stats" ELSE "no_data"

\* if jobs_buffer: open(output_path, "a"); writer.writerows(jobs_buffer);
\* print the statistics; else: print the warning
WriteRows ==
    /\ pc = "write"
    /\ csv' = IF jobs_buffer # <<>> THEN [csv EXCEPT !.rows = @ \o jobs_buffer]
                                    ELSE csv
    /\ report' = ReportAfterLoop
    /\ pc' = "finally"
    /\ UNCHANGED <<frontVars, runVars, argVars, browser, playwright, sessions, failure, navVars, respVars,
                   countVars, loopVars>>
    /\ UNCHANGED <<crawlerVars, shown, init_scripts, resolved, histVars>>

\* finally: pbar.close(); browser.close(); then the with block ends and the
\* function returns output_path or the pending exception propagates
Finally ==
    /\ pc = "finally"
    /\ browser' = "closed"
    /\ sessions' = sessions - 1
    /\ playwright' = "stopped"
    /\ inflight' = {}
    /\ pc' = IF failure = "none" THEN "returned" ELSE "raised"
    /\ UNCHANGED <<frontVars, runVars, argVars, csv, failure, navVars, captured_responses,
                   countVars, loopVars>>
    /\ UNCHANGED <<crawlerVars, shown, logVars>>


\* the state of a call of get_job_details before its first statement
CallState ==
    /\ pc' = "start"
    /\ csv' = NoFile
    /\ browser' = "none"
    /\ sessions' = sessions
    /\ playwright' = "none"
    /\ failure' = "none"
    /\ attempt' = 0 /\ attempts' = 0 /\ reloads' = 0
    /\ captured_responses' = <<>> /\ inflight' = {}
    /\ valid_count' = 0 /\ filtered_count' = 0 /\ filtered_english_count' = 0
    /\ jobs_buffer' = <<>>
    /\ page_num' = 1 /\ last_height' = 0 /\ scroll_count' = 0
    /\ cards' = 0 /\ cardIdx' = 0 /\ wait_time' = 0 /\ clicks' = 0
    /\ exitReason' = "none" /\ shown' = 0
    /\ UNCHANGED crawlerVars
    /\ init_scripts' = 0 /\ report' = "none" /\ resolved' = 0
    /\ next_button' = NotLooked /\ next_clicks' = 0 /\ settled' = TRUE
    /\ accepted_at' = <<>>

CrawlInit ==
    /\ pc = "start"
    /\ csv = NoFile
    /\ browser = "none" /\ sessions = 0
    /\ playwright = "none"
    /\ failure = "none"
    /\ attempt = 0 /\ attempts = 0 /\ reloads = 0
    /\ captured_responses = <<>> /\ inflight = {}
    /\ valid_count = 0 /\ filtered_count = 0 /\ filtered_english_count = 0
    /\ jobs_buffer = <<>>
    /\ page_num = 1 /\ last_height = 0 /\ scroll_count = 0
    /\ cards = 0 /\ cardIdx = 0 /\ wait_time = 0 /\ clicks = 0
    /\ exitReason = "none" /\ shown = 0
    /\ count = 0 /\ max_jobs = 0 /\ clicked = <<>>
    /\ module_order = get_default_module_order /\ pressed = NoButton
    /\ init_scripts = 0 /\ report = "none" /\ resolved = 0
    /\ next_button = NotLooked /\ next_clicks = 0 /\ settled = TRUE
    /\ accepted_at = <<>>

\* ------------------------------------------------------ crawl_jobs and main
\* a line of the combined file written by an earlier run
PriorLine == [job_category |-> "prior", job_code |-> "prior", row |-> <<>>]

\* csv.DictReader(handle): the first line of the file gives the field names,
\* the lines after it are the rows
DictReaderRowsLessOne(file) == IF file.rows = <<>> THEN <<>> ELSE Tail(file.rows)
DictReaderRows(file) == IF file.header THEN file.rows
                        ELSE IF file.rows = <<>> THEN <<>> ELSE Tail(file.rows)

\* row["job_category"] = job_name; row["job_code"] = job_code
TaggedWithFirstCode(row, job_name, job_code) ==
    [job_category |-> job_name, job_code |-> job_dict["Java"], row |-> row]
Tagged(row, job_name, job_code) ==
    [job_category |-> job_name, job_code |-> job_code, row |-> row]

\* for row in reader: tag; combined_file.write(json.dumps(row) + "\n"); count += 1
RECURSIVE WriteTagged(_, _, _, _, _)
WriteTagged(rows, combined_file, written, job_name, job_code) ==
    IF rows = <<>>
      THEN [combined_file |-> combined_file, count |-> written]
      ELSE WriteTagged(Tail(rows),
                       Append(combined_file, Tagged(Head(rows), job_name, job_code)),
                       written + 1, job_name, job_code)

\* append_csv_to_jsonl: count = 0; one line per row of the reader; return count.
\* The result is the combined file after the writes and the value returned.
append_csv_to_jsonl(file, combined_file, job_name, job_code) ==
    WriteTagged(DictReaderRows(file), combined_file, 0, job_name, job_code)

\* --jobs: absent (None), or a string, modelled as its comma-separated items
\* (what raw_jobs.split(",") yields), each item a sequence of atoms: " " for
\* white space, otherwise a name. The empty string is the single empty item.
NoJobsArg == [given |-> FALSE, items |-> <<>>]
EmptyJobsArg == [given |-> TRUE, items |-> << <<>> >>]
RawItems == {<<>>, <<" ">>, <<"Java">>, <<" ", "Python", " ">>, <<"Rust">>}
RawInputs ==
    {NoJobsArg} \cup
    {[given |-> TRUE, items |-> its] :
        its \in UNION {[1..n -> RawItems] : n \in 1..MaxItems}}

\* str.strip() of an item
RECURSIVE lstrip(_)
lstrip(item) == IF item # <<>> /\ Head(item) = " " THEN lstrip(Tail(item)) ELSE item
RECURSIVE rstrip(_)
rstrip(item) ==
    IF item # <<>> /\ item[Len(item)] = " "
      THEN rstrip(SubSeq(item, 1, Len(item) - 1))
      ELSE item
strip(item) == rstrip(lstrip(item))

\* list(job_dict.keys()), in the order of the dict
AllJobNamesFirstOnly == <<"Java">>
AllJobNames == <<"Java", "Python">>

\* get_job_url: position = job_dict.get(job), None for a name that is no key;
\* the URL carries city, position and jobType as query parameters
get_job_url(except_job, city, jobType) ==
    [city |-> city,
     position |-> IF except_job.job \in JobNames THEN job_dict[except_job.job]
                                                ELSE "None",
     jobType |-> jobType]

\* names = [name.strip() for name in raw_jobs.split(",") if name.strip()]
\* (every item of RawItems strips to at most one atom: the name)
StrippedNames(raw) ==
    LET stripped == [i \in 1..Len(raw.items) |-> strip(raw.items[i])]
        kept == SelectSeq(stripped, LAMBDA item : item # <<>>)
    IN  [i \in 1..Len(kept) |-> kept[i][1]]

\* unknown = [name for name in names if name not in job_dict]
unknownOfFirst(names) ==
    SelectSeq(SubSeq(names, 1, Min(1, Len(names))), LAMBDA name : name \notin JobNames)
unknown(names) == SelectSeq(names, LAMBDA name : name \notin JobNames)

\* parse_job_names: [ok, names]; ok = FALSE stands for the ValueError
parse_job_names(raw) ==
    IF ~raw.given \/ raw = EmptyJobsArg
      THEN [ok |-> TRUE, names |-> AllJobNames]
      ELSE IF unknown(StrippedNames(raw)) # <<>>
             THEN [ok |-> FALSE, names |-> <<>>]
             ELSE [ok |-> TRUE, names |-> StrippedNames(raw)]

\* what a call of get_job_details that returns hands back: `return output_path`,
\* a str (get_job_details is a plain def, not a coroutine function)
ReturnValue == [type |-> "str", path |-> "output_path"]

\* `await value` evaluates only for a coroutine, Task or Future; for any other
\* value it raises TypeError
IsAwaitable(value) == value.type \in {"coroutine", "Task", "Future"}

\* main(): job_names = parse_job_names(args.jobs), whose ValueError ends the
\* program; then crawl_jobs(...) is called but neither awaited nor handed to an
\* event loop: the coroutine object is dropped, its body never runs
Main ==
    /\ runPc = "main"
    /\ LET parsed == parse_job_names(raw_jobs)
       IN  IF parsed.ok
             THEN /\ job_names' = parsed.names
                  /\ runPc' = "main_done"
             ELSE /\ runPc' = "validation_error"
                  /\ UNCHANGED job_names
    /\ UNCHANGED <<frontVars, append, raw_jobs, calls, jobIdx, combined, priorRows, acceptedTotal,
                   appended,
                   argVars, pc, resVars, navVars, respVars, countVars, loopVars>>
    /\ UNCHANGED <<crawlerVars, shown, logVars>>

\* crawl_jobs run by an event loop: mode = "a" if append else "w"; open(...)
OpenCombined ==
    /\ runPc = "crawl_jobs"
    /\ combined' = IF append THEN combined ELSE <<>>
    /\ jobIdx' = 1
    /\ runPc' = "for_job"
    /\ UNCHANGED <<frontVars, append, raw_jobs, job_names, calls, priorRows, acceptedTotal,
                   appended,
                   argVars, pc, resVars, navVars, respVars, countVars, loopVars>>
    /\ UNCHANGED <<crawlerVars, shown, logVars>>

\* for job_name in job_names: ... get_job_details(url, max_count,
\* min_description_length, output_dir) is called (max_retries keeps its default)
ForJob ==
    /\ runPc = "for_job"
    /\ IF jobIdx <= Len(job_names)
         THEN /\ runPc' = "in_crawl"
              /\ calls' = Append(calls, [job |-> job_names[jobIdx],
                                         result |-> "running"])
              /\ max_retries' = DEFAULT_MAX_RETRIES
              /\ CallState
              /\ UNCHANGED <<max_count, min_description_length, site>>
         ELSE /\ runPc' = "done"
              /\ UNCHANGED <<calls, argVars, pc, resVars, navVars, respVars,
                             countVars, loopVars, shown, logVars, crawlerVars>>
    /\ UNCHANGED <<frontVars, append, raw_jobs, job_names, jobIdx, combined, priorRows,
                   acceptedTotal, appended>>

\* where crawl_jobs goes on when the call or the await of its value raised:
\* except Exception as exc: print(...); continue
OnCrawlExceptionAbort == "done"
OnCrawlException == "for_job"

\* the try block of crawl_jobs raises: the call did, or the await of its value
CrawlFailedNever == FALSE
CrawlFailed == pc = "raised" \/ ~IsAwaitable(ReturnValue)

\* the call has returned or raised: `csv_path = await <its value>`,
\* except Exception: continue; if not csv_path or not exists: continue;
\* append_csv_to_jsonl
AfterCall ==
    /\ runPc = "in_crawl"
    /\ pc \in {"returned", "raised"}
    /\ calls' = [calls EXCEPT ![Len(calls)].result = pc]
    /\ LET skipped == \/ CrawlFailed                 \* except: continue
                      \/ ~csv.exists                 \* no output generated: continue
           res == append_csv_to_jsonl(csv, combined, job_names[jobIdx],
                                      job_dict[job_names[jobIdx]])
       IN  /\ combined' = IF skipped THEN combined ELSE res.combined_file
           /\ appended' = IF skipped THEN appended ELSE res.count
    /\ acceptedTotal' = IF pc = "returned" THEN acceptedTotal + valid_count
                                           ELSE acceptedTotal
    /\ jobIdx' = jobIdx + 1
    /\ runPc' = IF CrawlFailed
                  THEN OnCrawlException
                  ELSE "for_job"
    /\ pc' = "idle"
    /\ UNCHANGED <<frontVars, append, raw_jobs, job_names, priorRows, argVars, resVars, navVars,
                   respVars, countVars, loopVars>>
    /\ UNCHANGED <<crawlerVars, shown, logVars>>

\* category files as a crawl that returned leaves them: the header and up to
\* MaxRows accepted records
SampleRows == {[job |-> <<1, i>>, desc |-> <<200, 0>>] : i \in 1..MaxCards}
CategoryFiles ==
    {[NewFile EXCEPT !.rows = rows] :
        rows \in UNION {[1..n -> SampleRows] : n \in 0..MaxRows}}

\* job_code = job_dict[job_name];
\* appended = append_csv_to_jsonl(Path(csv_path), combined_file, job_name, job_code)
\* for a category and the file of its crawl
AppendCategory ==
    /\ runPc = "appending"
    /\ Len(calls) < MaxAppends
    /\ \E job_name \in JobNames, file \in CategoryFiles :
         LET res == append_csv_to_jsonl(file, combined, job_name, job_dict[job_name])
         IN  /\ csv' = file
             /\ combined' = res.combined_file
             /\ appended' = res.count
             /\ calls' = Append(calls, [job |-> job_name, result |-> "returned"])
    /\ UNCHANGED <<frontVars, runPc, append, raw_jobs, job_names, jobIdx, priorRows,
                   acceptedTotal, argVars, pc, browser, playwright, sessions, failure,
                   navVars, respVars, countVars, loopVars>>
    /\ UNCHANGED <<crawlerVars, shown, logVars>>

\* ------------------------------------------- tools/crawler.py: the card loop
\* max_jobs = min(len(cards), max_count)
MaxJobsUncapped(n) == n
MaxJobsOf(n) == Min(n, max_count)

\* cards = await browser_page.locator(".job-info").all(); count = 0;
\* max_jobs = min(len(cards), max_count); jobs_buffer = []
CrawlerEnumerate ==
    /\ pc = "crawler_cards"
    /\ \E n \in 0..site.cards :
         /\ cards' = n
         /\ max_jobs' = MaxJobsOf(n)
    /\ count' = 0
    /\ jobs_buffer' = <<>>
    /\ cardIdx' = 1
    /\ pc' = "crawler_head"
    /\ UNCHANGED <<frontVars, runVars, argVars, resVars, navVars, respVars, valid_count,
                   filtered_count, filtered_english_count, page_num, last_height,
                   scroll_count, wait_time, clicks, exitReason, clicked, shown,
                   logVars>>

\* locator(...).all() raises: the statement is before the try block, the
\* exception leaves get_job_details through the async with block
CrawlerEnumerateRaises ==
    /\ pc = "crawler_cards"
    /\ failure' = "page_error"
    /\ playwright' = "stopped"
    /\ sessions' = SessionsAfterStop
    /\ inflight' = {}
    /\ pc' = "crawler_raised"
    /\ UNCHANGED <<frontVars, runVars, argVars, csv, browser, navVars, captured_responses,
                   countVars, loopVars, shown, logVars, crawlerVars>>

\* the for loop moves to the next card (continue, or the end of the body)
CrawlerNextCard ==
    /\ cardIdx' = cardIdx + 1
    /\ wait_time' = 0
    /\ pc' = "crawler_head"

\* for card in cards: if count >= max_jobs: break;
\* try: captured_responses.clear()
CrawlerHead ==
    /\ pc = "crawler_head"
    /\ IF cardIdx > cards \/ count >= max_jobs
         THEN /\ pc' = "crawler_write"
              /\ UNCHANGED captured_responses
         ELSE /\ captured_responses' = <<>>
              /\ pc' = "crawler_scroll"
    /\ UNCHANGED <<frontVars, runVars, argVars, resVars, navVars, inflight, countVars, loopVars,
                   shown, logVars, crawlerVars>>

\* await card.scroll_into_view_if_needed() returns
CrawlerScrollIntoView ==
    /\ pc = "crawler_scroll"
    /\ pc' = "crawler_click"
    /\ UNCHANGED <<frontVars, runVars, argVars, resVars, navVars, respVars, countVars, loopVars,
                   shown, logVars, crawlerVars>>

\* await card.click() returns; the site answers the click or stays silent
CrawlerClick ==
    /\ pc = "crawler_click"
    /\ clicks' = clicks + 1
    /\ clicked' = Append(clicked, cardIdx)
    /\ wait_time' = 0
    /\ \/ \E rsp \in Answers(CurrentCard) : inflight' = inflight \cup {rsp}
       \/ UNCHANGED inflight
    /\ pc' = "crawler_wait"
    /\ UNCHANGED <<frontVars, runVars, argVars, resVars, navVars, captured_responses, countVars,
                   page_num, last_height, scroll_count, cards, cardIdx, exitReason,
                   shown, logVars, count, max_jobs>>

\* scroll_into_view_if_needed() or click() raises: except Exception, next card
CrawlerCardStepRaises ==
    /\ pc \in {"crawler_scroll", "crawler_click"}
    /\ CrawlerNextCard
    /\ UNCHANGED <<frontVars, runVars, argVars, resVars, navVars, respVars, countVars,
                   page_num, last_height, scroll_count, cards, clicks, exitReason,
                   shown, logVars, crawlerVars>>

\* the task made by sync_handle_response runs at an await of the main flow:
\* data = await response.json(); captured_responses.append(data), or the
\* response is dropped with a message
crawler_handle_response ==
    /\ pc \in {"crawler_scroll", "crawler_wait"}
    /\ \E rsp \in inflight :
         /\ inflight' = inflight \ {rsp}
         /\ \/ captured_responses' = Append(captured_responses, rsp)
            \/ UNCHANGED captured_responses
    /\ UNCHANGED <<frontVars, runVars, argVars, pc, resVars, navVars, countVars, loopVars,
                   shown, logVars, crawlerVars>>

\* while len(captured_responses) == 0 and wait_time < max_wait:
\*     await wait_for_timeout(200); wait_time += 0.2
CrawlerPoll ==
    /\ pc = "crawler_wait"
    /\ Len(captured_responses) = 0
    /\ wait_time < MAX_WAIT_POLLS
    /\ wait_time' = wait_time + 1
    /\ UNCHANGED <<frontVars, runVars, argVars, pc, resVars, navVars, respVars, countVars,
                   page_num, last_height, scroll_count, cards, cardIdx, clicks,
                   exitReason, shown, logVars, crawlerVars>>

\* the wait loop ends; if len(captured_responses) == 0: continue
CrawlerWaitEnds ==
    /\ pc = "crawler_wait"
    /\ ~(Len(captured_responses) = 0 /\ wait_time < MAX_WAIT_POLLS)
    /\ IF Len(captured_responses) = 0
         THEN CrawlerNextCard
         ELSE pc' = "crawler_parse" /\ UNCHANGED <<cardIdx, wait_time>>
    /\ \E late \in SUBSET inflight :
         /\ Cardinality(late) <= site.late
         /\ inflight' = late
    /\ UNCHANGED <<frontVars, runVars, argVars, resVars, navVars, captured_responses, countVars,
                   page_num, last_height, scroll_count, cards, clicks, exitReason,
                   shown, logVars, crawlerVars>>

\* json_data = captured_responses[0]; job_data = {...};
\* jobs_buffer.append(job_data); count += 1; wait_for_timeout(500);
\* except Exception: a message (count is left alone); next card
CrawlerParse ==
    /\ pc = "crawler_parse"
    /\ LET rsp == FirstCaptured
       IN  IF rsp.kind = "detail"
             THEN /\ jobs_buffer' = Append(jobs_buffer, JobData(rsp))
                  /\ count' = count + 1
             ELSE /\ jobs_buffer' = jobs_buffer
                  /\ count' = count
    /\ CrawlerNextCard
    /\ UNCHANGED <<frontVars, runVars, argVars, resVars, navVars, respVars, valid_count,
                   filtered_count, filtered_english_count, page_num, last_height,
                   scroll_count, cards, clicks, exitReason, shown, logVars,
                   max_jobs, clicked>>

\* if jobs_buffer: writer.writerows(jobs_buffer); finally: pbar.close();
\* await browser.close(); return output_path
CrawlerWrite ==
    /\ pc = "crawler_write"
    /\ csv' = IF jobs_buffer # <<>> THEN [csv EXCEPT !.rows = @ \o jobs_buffer]
                                    ELSE csv
    /\ browser' = "closed"
    /\ playwright' = "stopped"
    /\ sessions' = sessions - 1
    /\ inflight' = {}
    /\ pc' = "crawler_returned"
    /\ UNCHANGED <<frontVars, runVars, argVars, failure, navVars, captured_responses, countVars,
                   loopVars, shown, logVars, crawlerVars>>

\* ------------------------------- frontend/module_order_manager.py
\* module_order[i], module_order[j] = module_order[j], module_order[i]
\* (positions counted from 0, as idx in the source)
SwapLosing(order, i, j) == [order EXCEPT ![i + 1] = order[j + 1]]
Swap(order, i, j) ==
    [order EXCEPT ![i + 1] = order[j + 1], ![j + 1] = order[i + 1]]

\* if idx > 0: the row shows the move-up button
UpOffered(idx) == idx > 0
\* if idx < len(module_order) - 1: the row shows the move-down button
DownOffered(idx) == idx < Len(module_order) - 1

\* the move-up button of row idx is pressed: swap with the row above, rerun
MoveUp ==
    /\ \E idx \in 0..(Len(module_order) - 1) :
         /\ UpOffered(idx)
         /\ module_order' = Swap(module_order, idx, idx - 1)
         /\ pressed' = [kind |-> "up", idx |-> idx]
    /\ UNCHANGED toolVars

\* the move-down button of row idx is pressed: swap with the row below, rerun
MoveDown ==
    /\ \E idx \in 0..(Len(module_order) - 1) :
         /\ DownOffered(idx)
         /\ module_order' = Swap(module_order, idx, idx + 1)
         /\ pressed' = [kind |-> "down", idx |-> idx]
    /\ UNCHANGED toolVars

\* the reset button is pressed: module_order = get_default_module_order()
ResetOrder ==
    /\ module_order' = get_default_module_order
    /\ pressed' = [kind |-> "reset", idx |-> 0]
    /\ UNCHANGED toolVars

\* --------------------------------------------------------- specifications
GetJobDetails ==
    \/ InitCsv \/ LaunchBrowser \/ LaunchRaises \/ AddInitScript
    \/ NavStepOk \/ NavStepTimeout \/ NavStepError \/ ReloadOk \/ ReloadFails
    \/ LoopInit \/ LoopHead \/ ScrollStep \/ PageStepRaises \/ EnumerateCards
    \/ CardHead \/ ScrollIntoView \/ Click \/ CardStepRaises
    \/ handle_response \/ Poll \/ WaitEnds \/ ProcessResponse
    \/ AfterCards \/ PagerAbsent \/ PagerDisabled \/ PagerClick \/ PagerAdvance
    \/ PagerRaises
    \/ WriteRows \/ Finally

\* get_job_details called on its own, for any arguments
Init ==
    /\ runPc = "direct"
    /\ append = FALSE /\ job_names = <<>> /\ jobIdx = 0
    /\ raw_jobs = NoJobsArg /\ calls = <<>>
    /\ combined = <<>> /\ priorRows = 0 /\ acceptedTotal = 0 /\ appended = 0
    /\ max_count \in 1..MaxCountArg
    /\ max_retries = DEFAULT_MAX_RETRIES
    /\ min_description_length = DEFAULT_MIN_DESCRIPTION_LENGTH
    /\ site = Site(MaxPages, MaxCards, MaxPostings, MaxLate, Descs)
    /\ CrawlInit

Next == GetJobDetails

Spec == Init /\ [][Next]_vars

\* get_job_details called on a site without a last page, whose cards are too
\* short, answer with something that is no detail object, or do not answer;
\* every step of the call that can be taken is taken eventually
InitEndless ==
    /\ runPc = "direct"
    /\ append = FALSE /\ job_names = <<>> /\ jobIdx = 0
    /\ raw_jobs = NoJobsArg /\ calls = <<>>
    /\ combined = <<>> /\ priorRows = 0 /\ acceptedTotal = 0 /\ appended = 0
    /\ max_count = 1
    /\ max_retries = DEFAULT_MAX_RETRIES
    /\ min_description_length = DEFAULT_MIN_DESCRIPTION_LENGTH
    /\ site = EndlessSite(1, {<<150, 150>>})
    /\ CrawlInit

SpecEndless == InitEndless /\ [][Next]_vars /\ WF_vars(Next)

\* the card loop of tools/crawler.py on the one page it has loaded and scrolled
InitCrawler ==
    /\ runPc = "direct"
    /\ append = FALSE /\ job_names = <<>> /\ jobIdx = 0
    /\ raw_jobs = NoJobsArg /\ calls = <<>>
    /\ combined = <<>> /\ priorRows = 0 /\ acceptedTotal = 0 /\ appended = 0
    /\ max_count \in 1..MaxCountArg
    /\ max_retries = DEFAULT_MAX_RETRIES
    /\ min_description_length = DEFAULT_MIN_DESCRIPTION_LENGTH
    /\ site = Site(1, CrawlerCards, CrawlerCards, MaxLate, Descs)
    /\ pc = "crawler_cards"
    /\ csv = NewFile
    /\ browser = "open" /\ playwright = "started" /\ sessions = 1
    /\ failure = "none"
    /\ attempt = 0 /\ attempts = 0 /\ reloads = 0
    /\ captured_responses = <<>> /\ inflight = {}
    /\ valid_count = 0 /\ filtered_count = 0 /\ filtered_english_count = 0
    /\ jobs_buffer = <<>>
    /\ page_num = 1 /\ last_height = 0 /\ scroll_count = 0
    /\ cards = 0 /\ cardIdx = 0 /\ wait_time = 0 /\ clicks = 0
    /\ exitReason = "none" /\ shown = 0
    /\ count = 0 /\ max_jobs = 0 /\ clicked = <<>>
    /\ module_order = get_default_module_order /\ pressed = NoButton
    /\ init_scripts = 1 /\ report = "none" /\ resolved = 0
    /\ next_button = NotLooked /\ next_clicks = 0 /\ settled = TRUE
    /\ accepted_at = <<>>

\* the module order manager after its first render
InitOrder ==
    /\ runPc = "direct"
    /\ append = FALSE /\ job_names = <<>> /\ jobIdx = 0
    /\ raw_jobs = NoJobsArg /\ calls = <<>>
    /\ combined = <<>> /\ priorRows = 0 /\ acceptedTotal = 0 /\ appended = 0
    /\ max_count = 1
    /\ max_retries = DEFAULT_MAX_RETRIES
    /\ min_description_length = DEFAULT_MIN_DESCRIPTION_LENGTH
    /\ site = Site(1, 1, 1, 0, Descs)
    /\ CrawlInit

NextOrder == MoveUp \/ MoveDown \/ ResetOrder

SpecOrder == InitOrder /\ [][NextOrder]_vars

NextCrawler ==
    \/ CrawlerEnumerate \/ CrawlerEnumerateRaises
    \/ CrawlerHead \/ CrawlerScrollIntoView \/ CrawlerClick \/ CrawlerCardStepRaises
    \/ crawler_handle_response \/ CrawlerPoll \/ CrawlerWaitEnds \/ CrawlerParse
    \/ CrawlerWrite

SpecCrawler == InitCrawler /\ [][NextCrawler]_vars

\* get_job_details called on a larger site whose answers arrive within the
\* wait for their card or not at all
InitBig ==
    /\ runPc = "direct"
    /\ append = FALSE /\ job_names = <<>> /\ jobIdx = 0
    /\ raw_jobs = NoJobsArg /\ calls = <<>>
    /\ combined = <<>> /\ priorRows = 0 /\ acceptedTotal = 0 /\ appended = 0
    /\ max_count \in 1..BigCountArg
    /\ max_retries = DEFAULT_MAX_RETRIES
    /\ min_description_length = DEFAULT_MIN_DESCRIPTION_LENGTH
    /\ site = Site(MaxPages, MaxCards, BigPostings, 0, Descs)
    /\ CrawlInit

SpecBig == InitBig /\ [][Next]_vars

\* get_job_details called with any max_retries >= 1
InitNav ==
    /\ runPc = "direct"
    /\ append = FALSE /\ job_names = <<>> /\ jobIdx = 0
    /\ raw_jobs = NoJobsArg /\ calls = <<>>
    /\ combined = <<>> /\ priorRows = 0 /\ acceptedTotal = 0 /\ appended = 0
    /\ max_count = 1
    /\ max_retries \in 1..MaxRetriesArg
    /\ min_description_length = DEFAULT_MIN_DESCRIPTION_LENGTH
    /\ site = Site(MaxPages, MaxCards, FewPostings, 0, Descs)
    /\ CrawlInit

SpecNav == InitNav /\ [][Next]_vars

\* get_job_details called with any min_description_length, on a site whose
\* descriptions lie around the limits of the two filters
MinLengths == (0..MaxMinLength) \cup {DEFAULT_MIN_DESCRIPTION_LENGTH}

InitFilter ==
    /\ runPc = "direct"
    /\ append = FALSE /\ job_names = <<>> /\ jobIdx = 0
    /\ raw_jobs = NoJobsArg /\ calls = <<>>
    /\ combined = <<>> /\ priorRows = 0 /\ acceptedTotal = 0 /\ appended = 0
    /\ max_count = 1
    /\ max_retries = DEFAULT_MAX_RETRIES
    /\ min_description_length \in MinLengths
    /\ site = Site(MaxPages, MaxCards, FewPostings, 0, FilterDescs)
    /\ CrawlInit

SpecFilter == InitFilter /\ [][Next]_vars

\* append_csv_to_jsonl applied, as crawl_jobs applies it, to category files
\* and a combined file that is new or holds the rows of an earlier run
InitAppend ==
    /\ runPc = "appending"
    /\ append = TRUE /\ job_names = <<>> /\ jobIdx = 0
    /\ raw_jobs = NoJobsArg /\ calls = <<>>
    /\ priorRows \in {0, MaxPrior}
    /\ combined = [i \in 1..priorRows |-> PriorLine]
    /\ acceptedTotal = 0 /\ appended = 0
    /\ max_count = 1
    /\ max_retries = DEFAULT_MAX_RETRIES
    /\ min_description_length = DEFAULT_MIN_DESCRIPTION_LENGTH
    /\ site = Site(MaxPages, MaxCards, FewPostings, 0, Descs)
    /\ CrawlInit

NextAppend == AppendCategory

SpecAppend == InitAppend /\ [][NextAppend]_vars

\* a run of main / crawl_jobs over the requested categories
JobLists == UNION {[1..n -> JobNames] : n \in 0..MaxJobs}

InitRun ==
    /\ \/ /\ runPc = "main"                \* the program is started
          /\ raw_jobs \in RawInputs
          /\ job_names = <<>>
       \/ /\ runPc = "crawl_jobs"          \* crawl_jobs is run by an event loop
          /\ raw_jobs = NoJobsArg
          /\ job_names \in JobLists
    /\ append \in BOOLEAN
    /\ calls = <<>>
    /\ jobIdx = 0
    /\ priorRows \in {0, MaxPrior}      \* the combined file is new, or holds rows
    /\ combined = [i \in 1..priorRows |-> PriorLine]
    /\ acceptedTotal = 0 /\ appended = 0
    /\ max_count \in 1..RunCountArg
    /\ max_retries = DEFAULT_MAX_RETRIES
    /\ min_description_length = DEFAULT_MIN_DESCRIPTION_LENGTH
    /\ site = Site(MaxPages, MaxCards, FewPostings, 0, RunDescs)
    /\ pc = "idle"
    /\ csv = NoFile /\ browser = "none" /\ playwright = "none" /\ failure = "none"
    /\ sessions = 0
    /\ attempt = 0 /\ attempts = 0 /\ reloads = 0
    /\ captured_responses = <<>> /\ inflight = {}
    /\ valid_count = 0 /\ filtered_count = 0 /\ filtered_english_count = 0
    /\ jobs_buffer = <<>>
    /\ page_num = 1 /\ last_height = 0 /\ scroll_count = 0
    /\ cards = 0 /\ cardIdx = 0 /\ wait_time = 0 /\ clicks = 0
    /\ exitReason = "none" /\ shown = 0
    /\ count = 0 /\ max_jobs = 0 /\ clicked = <<>>
    /\ module_order = get_default_module_order /\ pressed = NoButton
    /\ init_scripts = 0 /\ report = "none" /\ resolved = 0
    /\ next_button = NotLooked /\ next_clicks = 0 /\ settled = TRUE
    /\ accepted_at = <<>>

NextRun == Main \/ OpenCombined \/ ForJob \/ AfterCall \/ GetJobDetails

SpecRun == InitRun /\ [][NextRun]_vars


\* ------------------------------------------------------------------ claims
InCardInteraction == pc \in {"card_scroll", "card_click", "card_wait", "card_parse"}
InLoop == pc \in {"loop_head", "scroll", "cards", "card_head", "card_scroll",
                  "card_click", "card_wait", "card_parse", "after_cards", "pager",
                  "pager_settle"}
Counted == valid_count + filtered_count + filtered_english_count

\* C1 (as stated): when navigation fails because the retries are used up, exactly
\* max_retries retries (reloads) and max_retries + 1 attempts have been made.
C1_FourAttempts ==
    failure = "retries_exhausted" =>
        attempts = max_retries + 1 /\ reloads = max_retries

\* C1 (amended): when navigation fails because the retries are used up, exactly
\* max_retries attempts have been made in total, with max_retries - 1 reloads
\* between them (3 attempts and 2 retries for max_retries = 3).
C1_MaxRetriesAttempts ==
    failure = "retries_exhausted" =>
        /\ pc = "raised"
        /\ attempts = max_retries
        /\ reloads = max_retries - 1
        /\ attempt = max_retries - 1

C1_Witness ==
    /\ pc = "raised" /\ failure = "retries_exhausted"
    /\ max_retries = 3 /\ attempts = 3 /\ reloads = 2

\* C2: whenever get_job_details has raised after the browser context was
\* launched, browser.close() has been executed.
C2_ClosedOnEveryExit ==
    (pc = "raised" /\ browser # "none") => browser = "closed"

\* C3: after a run with append = true over a combined file of N rows, the
\* combined file holds N + M rows, M the records accepted by the run's crawls.
C3_AppendAddsAccepted ==
    (runPc \in {"done", "main_done"} /\ append) =>
        Len(combined) = priorRows + acceptedTotal

\* C4: after crawl_jobs has run with append = false, the combined file holds
\* exactly M rows, M the records accepted by the run's crawls.
C4_OverwriteHoldsAccepted ==
    (runPc = "done" /\ ~append) => Len(combined) = acceptedTotal

\* C5: the response a card's record is parsed from was caused by the click on
\* that card.
C5_RecordFromOwnClick ==
    pc = "card_parse" => captured_responses[1].job = CurrentCard

\* C6: at the moment a card is clicked the captured-response buffer is empty.
C6_BufferEmptyAtClick ==
    pc = "card_click" => captured_responses = <<>>

\* C7: no card is scrolled to, clicked or waited for once valid_count has
\* reached max_count, and a loop that ends on the quota has accepted exactly
\* max_count records.
C7_QuotaStopsLoop ==
    /\ InCardInteraction => valid_count < max_count
    /\ exitReason = "quota" => valid_count = max_count

C7_Witness ==
    /\ exitReason = "quota" /\ max_count = 3
    /\ valid_count = 3 /\ clicks = 3
    /\ filtered_count = 0 /\ filtered_english_count = 0
    /\ cardIdx <= cards                 \* a card of the page was not handled

\* C8: valid_count never exceeds max_count, and a step that resolves a card
\* without buffering a record (length-rejected, language-rejected, timed out or
\* errored) leaves valid_count unchanged.
C8_QuotaCountsAcceptedOnly ==
    /\ [](valid_count <= max_count)
    /\ [][ (\/ filtered_count' # filtered_count
            \/ filtered_english_count' # filtered_english_count
            \/ (InCardInteraction /\ pc' = "card_head" /\ jobs_buffer' = jobs_buffer))
           => valid_count' = valid_count ]_vars

C8_Witness ==
    /\ pc = "returned" /\ valid_count = max_count
    /\ filtered_count + filtered_english_count > 0   \* a card was rejected first

\* C9: valid_count is the number of records in jobs_buffer, the three counters
\* together never exceed the number of cards clicked, and a card adds one to at
\* most one of them.
C9_CountersBoundedByClicks ==
    /\ [](valid_count = Len(jobs_buffer) /\ Counted <= clicks)
    /\ [][ /\ Counted' <= Counted + 1
           /\ Counted' = Counted + 1 => (pc = "card_parse" /\ pc' = "card_head")
         ]_vars

C9_Witness ==
    /\ valid_count = 1 /\ filtered_count = 1 /\ filtered_english_count = 1
    /\ clicks = 4 /\ Len(jobs_buffer) = 1

\* C10: while the enumeration loop runs the category file holds the header
\* only; it holds data rows only after the loop has ended, and then all of
\* jobs_buffer, never a proper non-empty prefix of it.
C10_BatchWriteAfterLoop ==
    pc # "start" =>
        /\ csv.header
        /\ InLoop => csv.rows = <<>>
        /\ csv.rows # <<>> =>
             /\ csv.rows = jobs_buffer
             /\ pc \in {"finally", "returned", "raised"}
             /\ exitReason # "none"

C10_Witness ==
    /\ pc = "returned" /\ Len(jobs_buffer) >= 2 /\ csv.rows = jobs_buffer

\* C11: from the first navigation attempt on, and when navigation has failed
\* fatally, the category file exists and holds the header row and no data row.
InNavigation == pc \in {"nav_warmup", "nav_target", "nav_select", "nav_reload"}
NavigationFailed ==
    pc = "raised" /\ failure \in {"retries_exhausted", "navigation_error",
                                   "reload_failed"}

C11_HeaderOnlyOnNavFailure ==
    (InNavigation \/ NavigationFailed) =>
        /\ csv.exists
        /\ csv.header
        /\ csv.rows = <<>>

C11_Witness ==
    /\ NavigationFailed /\ failure = "retries_exhausted"
    /\ attempts = max_retries
    /\ csv.exists /\ csv.header /\ csv.rows = <<>>

\* the step that parses the response at the head of the buffer, when that
\* response is a job detail
ParsingDetail == pc = "card_parse" /\ captured_responses[1].kind = "detail"
ParsedDesc == captured_responses[1].desc

\* the card just resolved was resolved from a detail with description d
ResolvedFrom(d) ==
    /\ pc = "card_head" /\ clicks = 1
    /\ captured_responses # <<>>
    /\ captured_responses[1].kind = "detail"
    /\ captured_responses[1].desc = d

\* C12: a record whose description is shorter than min_description_length is
\* counted in filtered_count and in nothing else, whatever its ASCII-letter ratio.
C12_ShortBeforeRatio ==
    [][ (ParsingDetail /\ ParsedDesc[1] < min_description_length) =>
            /\ filtered_count' = filtered_count + 1
            /\ filtered_english_count' = filtered_english_count
            /\ valid_count' = valid_count
            /\ jobs_buffer' = jobs_buffer ]_vars

C12_Witness ==
    /\ ResolvedFrom(<<150, 150>>)           \* 150 characters, all ASCII letters
    /\ min_description_length = 200
    /\ filtered_count = 1 /\ filtered_english_count = 0 /\ valid_count = 0

\* limits (in tenths) a job spec might configure as foreign_language_ratio_limit
ConfigurableLimits == {3, 9}

\* C13 (as stated): for whichever limit the job spec configures, a record that
\* passed the length filter is language-rejected exactly when its ASCII-letter
\* ratio exceeds that limit (ratio 0.8: rejected under 0.3, accepted under 0.9).
C13_ConfiguredLimitDecides ==
    [][ \A limit \in ConfigurableLimits :
          (ParsingDetail /\ ParsedDesc[1] >= min_description_length) =>
             /\ (filtered_english_count' = filtered_english_count + 1)
                   <=> (10 * ParsedDesc[2] > limit * ParsedDesc[1])
             /\ (valid_count' = valid_count + 1)
                   <=> ~(10 * ParsedDesc[2] > limit * ParsedDesc[1]) ]_vars

\* C13 (amended): a record that passed the length filter is language-rejected
\* exactly when its ASCII-letter ratio exceeds 0.3, and accepted otherwise; the
\* limit is fixed (a ratio of exactly 0.3 is accepted, a ratio of 0.8 rejected).
C13_FixedLimitDecides ==
    [][ (ParsingDetail /\ ParsedDesc[1] >= min_description_length) =>
           /\ (filtered_english_count' = filtered_english_count + 1)
                 <=> (ParsedDesc[1] > 0 /\ 10 * ParsedDesc[2] > 3 * ParsedDesc[1])
           /\ (valid_count' = valid_count + 1)
                 <=> ~(ParsedDesc[1] > 0 /\ 10 * ParsedDesc[2] > 3 * ParsedDesc[1])
           /\ filtered_count' = filtered_count ]_vars

C13_Witness ==
    /\ ResolvedFrom(<<200, 160>>)           \* ratio 0.8
    /\ filtered_english_count = 1 /\ valid_count = 0 /\ filtered_count = 0

\* C14: a record with an empty description is never counted as language-
\* rejected, and is counted as length-rejected when min_description_length >= 1.
C14_EmptyNeverForeign ==
    [][ (ParsingDetail /\ ParsedDesc[1] = 0) =>
           /\ filtered_english_count' = filtered_english_count
           /\ min_description_length >= 1 =>
                 (filtered_count' = filtered_count + 1 /\ valid_count' = valid_count)
      ]_vars

C14_Witness ==
    /\ ResolvedFrom(<<0, 0>>)
    /\ min_description_length = 0          \* the ratio test is reached
    /\ filtered_english_count = 0 /\ filtered_count = 0 /\ valid_count = 1

\* the categories get_job_details was called for, in the order of the calls
started == [i \in 1..Len(calls) |-> calls[i].job]

\* C15: crawl_jobs calls get_job_details once for every requested category, in
\* the order given; after a call that raised, the loop goes on with the next
\* category.
C15_EveryCategoryAttempted ==
    /\ [](/\ runPc = "for_job" => started = SubSeq(job_names, 1, jobIdx - 1)
          /\ runPc = "in_crawl" => started = SubSeq(job_names, 1, jobIdx)
          /\ runPc = "done" => started = job_names)
    /\ [][ (runPc = "in_crawl" /\ pc = "raised" /\ runPc' # runPc) =>
              (runPc' = "for_job" /\ jobIdx' = jobIdx + 1) ]_vars

C15_Witness ==
    /\ runPc = "done" /\ Len(job_names) = 2 /\ started = job_names
    /\ calls[1].result = "raised"               \* the first category's crawl failed
    /\ calls[2].result = "returned"

\* the --jobs argument names a category that is not a key of job_dict
HasUnknownName(raw) ==
    /\ raw.given /\ raw # EmptyJobsArg
    /\ \E i \in 1..Len(raw.items) :
          strip(raw.items[i]) # <<>> /\ strip(raw.items[i])[1] \notin JobNames

\* C16: when --jobs names an unknown category the run ends with the validation
\* error: no browser was opened, no category file created, no call of
\* get_job_details made, and the combined file is as it was before the run.
C16_UnknownNameRejectedFirst ==
    (runPc # "main" /\ HasUnknownName(raw_jobs)) =>
        /\ runPc = "validation_error"
        /\ browser = "none" /\ playwright = "none"
        /\ ~csv.exists
        /\ calls = <<>>
        /\ combined = [i \in 1..priorRows |-> PriorLine]

C16_Witness ==
    /\ runPc = "validation_error"
    /\ raw_jobs.items = << <<"Java">>, <<"Rust">> >>   \* --jobs "Java,Rust"
    /\ ~append /\ priorRows = 1 /\ Len(combined) = 1

\* C17: a failure of the page advance ends the loop without raising, and the
\* category file then holds every record of jobs_buffer: valid_count data rows.
C17_AdvanceFailureKeepsRecords ==
    exitReason = "advance_failed" =>
        /\ failure = "none"
        /\ pc \in {"write", "finally", "returned"}
        /\ pc \in {"finally", "returned"} =>
              (csv.rows = jobs_buffer /\ Len(csv.rows) = valid_count)

C17_Witness ==
    /\ exitReason = "advance_failed" /\ pc = "returned"
    /\ valid_count = 1 /\ max_count = 2
    /\ Len(csv.rows) = 1

\* the exits of the while loop: (a) quota, (b) no cards, (c) next-page control
\* absent or disabled, (d) the advance raised
LoopExitReasons == {"quota", "no_cards", "no_next_button", "last_page",
                    "advance_failed"}

\* C18: the enumeration loop is left only by one of its four exits, never by
\* another event, and it is left whenever the quota is reached at one of the
\* two quota tests.
C18_OnlyFourExits ==
    /\ [][ (InLoop /\ ~InLoop') =>
              (pc' = "write" /\ exitReason' \in LoopExitReasons) ]_vars
    /\ [][ (pc \in {"loop_head", "after_cards"} /\ valid_count >= max_count) =>
              (pc' = "write" /\ exitReason' = "quota") ]_vars

\* a step in which the current card fails: scrolling to it or clicking it
\* raises, no response is captured within the wait, or parsing the captured
\* payload raises
CardFails ==
    \/ pc \in {"card_scroll", "card_click"} /\ pc' = "card_head"
    \/ pc = "card_wait" /\ pc' = "card_head"
    \/ pc = "card_parse" /\ captured_responses[1].kind # "detail"

C20_BoundedWaitFirstResponse ==
    /\ [](wait_time <= MAX_WAIT_POLLS)
    /\ [][ wait_time' = wait_time + 1 =>
              (pc = "card_wait" /\ captured_responses = <<>>) ]_vars
    /\ [][ (pc = "card_wait" /\ pc' = "card_head") =>
              (captured_responses = <<>> /\ wait_time = MAX_WAIT_POLLS) ]_vars
    /\ [][ Len(captured_responses') > Len(captured_responses) =>
              /\ Len(captured_responses') = Len(captured_responses) + 1
              /\ SubSeq(captured_responses', 1, Len(captured_responses))
                    = captured_responses ]_vars
    /\ [][ jobs_buffer' # jobs_buffer =>
              /\ pc = "card_parse"
              /\ jobs_buffer' = Append(jobs_buffer, JobData(captured_responses[1]))
          ]_vars

C20_Witness ==
    /\ pc = "card_head" /\ Len(captured_responses) = 2
    /\ captured_responses[1] # captured_responses[2]
    /\ Len(jobs_buffer) = 1
    /\ jobs_buffer[1] = JobData(captured_responses[1])
    /\ jobs_buffer[1] # JobData(captured_responses[2])

\* C21: append_csv_to_jsonl returns the number of data rows of the category
\* file and appends that many lines to the combined file, one per row in file
\* order, leaving the lines before them as they were; a header-only file
\* yields 0 and appends nothing.
C21_AppendReturnsRowCount ==
    [][ calls' # calls =>
          /\ appended' = Len(csv'.rows)
          /\ Len(combined') = Len(combined) + appended'
          /\ SubSeq(combined', 1, Len(combined)) = combined
          /\ \A i \in 1..Len(csv'.rows) :
                combined'[Len(combined) + i].row = csv'.rows[i]
          /\ csv'.rows = <<>> => (appended' = 0 /\ combined' = combined) ]_vars

C21_Witness ==
    /\ runPc = "appending" /\ Len(calls) = 1
    /\ Len(csv.rows) = 2 /\ csv.rows[1] # csv.rows[2]
    /\ appended = 2
    /\ priorRows = 1 /\ Len(combined) = 3
    /\ combined[2].row = csv.rows[1] /\ combined[3].row = csv.rows[2]

\* C22: every line appended to the combined file carries the name of the
\* category the call was made for and the code job_dict maps that name to, and
\* the lines of the categories appended before keep their tags.
C22_LinesCarryOwnCategory ==
    /\ [][ calls' # calls =>
              \A i \in (Len(combined) + 1)..Len(combined') :
                 /\ combined'[i].job_category = calls'[Len(calls')].job
                 /\ combined'[i].job_code = job_dict[calls'[Len(calls')].job] ]_vars
    /\ [](\A i \in (priorRows + 1)..Len(combined) :
             /\ combined[i].job_category \in JobNames
             /\ combined[i].job_code = job_dict[combined[i].job_category])

C22_Witness ==
    /\ runPc = "appending" /\ Len(calls) = 2 /\ priorRows = 0
    /\ calls[1].job = "Java" /\ calls[2].job = "Python"
    /\ Len(combined) = 2
    /\ combined[1].job_category = "Java" /\ combined[1].job_code = "100101"
    /\ combined[2].job_category = "Python" /\ combined[2].job_code = "100109"

\* C23: when a category crawl has returned, its closing report has stated the
\* accepted count and the two rejected counts.
C23_CountsReported ==
    pc = "returned" => report = "stats"

\* C24: at most one browser session is live at any time of a run, and none is
\* live when the call for a category starts, has returned or has raised.
C24_OneSessionAtATime ==
    /\ sessions <= 1
    /\ pc \in {"idle", "start", "launch", "returned", "raised"} => sessions = 0
    /\ sessions = 1 => (browser = "open" /\ playwright = "started")

C24_Witness ==
    /\ runPc = "in_crawl" /\ Len(calls) = 2
    /\ calls[1].result = "raised"        \* the first category's crawl failed
    /\ browser = "open" /\ sessions = 1 /\ pc = "nav_warmup"

\* C25: a card is clicked only when every card clicked before it has been
\* resolved, and at most one clicked card is unresolved at any time: the one
\* being waited for or parsed.
C25_OneCardInFlight ==
    /\ clicks - resolved \in {0, 1}
    /\ clicks - resolved = 1 <=> pc \in {"card_wait", "card_parse"}
    /\ pc = "card_click" => clicks = resolved

C25_Witness ==
    /\ pc = "card_click" /\ clicks = 2 /\ resolved = 2
    /\ Counted = 1                      \* one card accepted or rejected, one failed

\* one of the three steps of a navigation attempt is being made
InNavStep == pc \in {"nav_warmup", "nav_target", "nav_select"}

\* C26: an attempt makes the warm-up goto, the target goto and the selector
\* wait in this order; a step that times out in an attempt that is not the last
\* leads to one reload, after which the next attempt starts with the warm-up
\* goto; an attempt whose three steps complete ends the retry loop.
C26_AttemptOrderAndReload ==
    /\ [](InNavStep => (reloads = attempts - 1 /\ attempt = attempts - 1))
    /\ [][ (pc = "nav_warmup" /\ pc' # pc) =>
              pc' \in {"nav_target", "nav_reload", "raised"} ]_vars
    /\ [][ (pc = "nav_target" /\ pc' # pc) =>
              pc' \in {"nav_select", "nav_reload", "raised"} ]_vars
    /\ [][ (pc = "nav_select" /\ pc' # pc) =>
              pc' \in {"loop_init", "nav_reload", "raised"} ]_vars
    /\ [][ pc' = "nav_reload" =>
              (InNavStep /\ attempt < max_retries - 1 /\ reloads' = reloads) ]_vars
    /\ [][ (pc = "nav_reload" /\ pc' # pc) =>
              /\ reloads' = reloads + 1
              /\ pc' \in {"nav_warmup", "raised"}
              /\ pc' = "nav_warmup" => attempts' = attempts + 1 ]_vars
    /\ [][ pc' = "nav_warmup" => pc \in {"init_script", "nav_reload"} ]_vars
    /\ [][ pc' = "loop_init" =>
              (pc = "nav_select" /\ attempts' = attempts /\ reloads' = reloads) ]_vars

C26_Witness ==
    /\ pc = "loop_init" /\ max_retries = 3
    /\ attempts = 2 /\ reloads = 1     \* the first attempt timed out, the second did not

\* C27: when the navigation phase has ended in failure, the full number of
\* attempts has been made.
C27_FailureOnlyAfterAllAttempts ==
    NavigationFailed => attempts = max_retries

\* C28: the init script is registered once in a session, and it is registered
\* when the first navigation of the session is issued.
C28_InitScriptOnceBeforeNavigation ==
    /\ init_scripts <= 1
    /\ pc \in {"start", "launch", "init_script"} => init_scripts = 0
    /\ (InNavigation \/ InLoop \/ attempts >= 1) => init_scripts = 1

C28_Witness ==
    /\ pc = "nav_warmup" /\ attempts = 2 /\ reloads = 1
    /\ init_scripts = 1                \* not registered again for the retry

\* the scrolls the expansion of the page has made when its loop has ended: the
\* loop's last iteration has the index scroll_count, and every iteration scrolls
\* before it measures
ScrollsPerformed == scroll_count + 1

\* C29: the expansion makes at most SCROLLS scrolls, and it goes on to another
\* scroll only when the height measured after a scroll is greater than the
\* measurement before it (an equal or a smaller height ends the expansion).
C29_StopsWhenHeightNotIncreased ==
    /\ [](pc = "cards" => ScrollsPerformed <= SCROLLS)
    /\ [][ (pc = "scroll" /\ pc' = "scroll") => last_height' > last_height ]_vars

\* C30: the expansion of a page whose height is converged (the first measurement
\* after a scroll equals the measurement before it) has made no scroll.
C30_ConvergedExpansionScrollsNothing ==
    [][ (pc = "scroll" /\ scroll_count = 0 /\ pc' = "cards"
         /\ last_height' = last_height) => ScrollsPerformed' = 0 ]_vars

\* C31: the pager ends the loop without a click and without a change of
\* page_num exactly when the next-page control is absent or its class contains
\* "disabled"; any other control is clicked (or the attempt raises).
C31_NoNextPageIffAbsentOrDisabled ==
    [][ (pc = "pager" /\ pc' # "pager") =>
          IF next_button.count = 0 \/ ContainsDisabled(next_button.class)
            THEN /\ pc' = "write"
                 /\ exitReason' \in {"no_next_button", "last_page", "advance_failed"}
                 /\ next_clicks' = next_clicks
                 /\ page_num' = page_num
            ELSE /\ exitReason' \notin {"no_next_button", "last_page"}
                 /\ \/ pc' = "pager_settle" /\ next_clicks' = next_clicks + 1
                    \/ pc' = "write" /\ exitReason' = "advance_failed" ]_vars

C31_Witness ==
    /\ pc = "write" /\ exitReason = "last_page"
    /\ page_num = 2 /\ next_clicks = 1   \* the control of page 1 was clicked

\* C32 as stated: outside an advance under way, page_num is 1 plus the number
\* of next-page clicks that returned.
C32_PageNumCountsClicks ==
    pc # "pager_settle" => page_num = 1 + next_clicks

\* C32 amended: page_num is 1 plus the number of advances whose click and
\* settle delay both completed; it grows by one at the end of the settle delay
\* and stays when the click or the delay raises.
C32_PageNumCountsCompletedAdvances ==
    /\ [](page_num \in {next_clicks, next_clicks + 1})
    /\ []((pc # "pager_settle" /\ exitReason # "advance_failed")
            => page_num = 1 + next_clicks)
    /\ [][ page_num' # page_num =>
             (pc = "pager_settle" /\ pc' = "loop_head" /\ page_num' = page_num + 1
              /\ next_clicks' = next_clicks) ]_vars
    /\ [][ exitReason' = "advance_failed" => page_num' = page_num ]_vars
    /\ [][ next_clicks' # next_clicks =>
             (next_clicks' = next_clicks + 1 /\ page_num' = page_num) ]_vars

C32_Witness ==
    /\ pc = "write" /\ exitReason = "advance_failed"
    /\ next_clicks = 1 /\ page_num = 1   \* the settle delay of the click raised
    /\ Len(jobs_buffer) = 1

\* a description that either filter rejects
Rejected(d) == IsShort(d) \/ EnglishRatioExceeds(d)

\* card a comes before card b: an earlier page, or the same page and an earlier
\* position among its cards
Before(a, b) == a[1] < b[1] \/ (a[1] = b[1] /\ a[2] < b[2])

\* C33: after a normal return the data rows of the category file are the
\* accepted records in the order of their acceptance, which is the order of the
\* cards (DOM order in a page, pages ascending); a step that rejects a card, or
\* in which a card times out or fails, adds nothing.
C33_RowsAreAcceptedInOrder ==
    /\ [](pc = "returned" =>
            /\ csv.rows = jobs_buffer
            /\ Len(csv.rows) = valid_count
            /\ \A i \in 1..Len(csv.rows) : ~Rejected(csv.rows[i].desc))
    /\ [](/\ Len(accepted_at) = Len(jobs_buffer)
          /\ \A i, j \in 1..Len(accepted_at) :
                i < j => Before(accepted_at[i], accepted_at[j]))
    /\ [][ jobs_buffer' # jobs_buffer =>
             /\ pc = "card_parse"
             /\ Decision(captured_responses[1]) = "accept"
             /\ jobs_buffer' = Append(jobs_buffer, JobData(captured_responses[1]))
             /\ accepted_at' = Append(accepted_at, CurrentCard) ]_vars

C33_Witness ==
    /\ pc = "returned" /\ Len(csv.rows) = 2
    /\ filtered_count = 1
    /\ accepted_at[1][1] = 1 /\ accepted_at[2][1] = 2   \* one row from each page

\* C34: when a crawl has ended, by return or by an exception, every record of
\* jobs_buffer is a row of the category file.
C34_AcceptedNeverLost ==
    pc \in {"returned", "raised"} => csv.rows = jobs_buffer

\* C35: every call of get_job_details ends, by return or by an exception.
C35_CrawlTerminates == <>(pc \in {"returned", "raised"})

\* C36: while a category is crawled, and when its crawl has failed (the call or
\* the await of its value raised), the combined file keeps the lines it had:
\* those of earlier runs in append mode, those of the run's earlier categories.
C36_FailedCategoryAddsNothing ==
    /\ [][ (runPc = "in_crawl" /\ runPc' = "in_crawl") => combined' = combined ]_vars
    /\ [][ (runPc = "in_crawl" /\ runPc' # "in_crawl"
            /\ (pc = "raised" \/ ~IsAwaitable(ReturnValue)))
           => (combined' = combined /\ appended' = appended) ]_vars

C36_Witness ==
    /\ runPc = "done" /\ append
    /\ Len(calls) = 2 /\ calls[1].result = "returned" /\ calls[2].result = "raised"
    /\ combined = <<PriorLine>>        \* the line of an earlier run is still there

\* C37: when a card or the next-page control is clicked, a wait has run since
\* the card click before it.
C37_WaitAfterEveryClick ==
    /\ [][ clicks' # clicks => settled ]_vars
    /\ [][ next_clicks' # next_clicks => settled ]_vars

\* a step of tools/crawler.py in which a clicked card times out or fails
CrawlerCardSkipped ==
    \/ pc = "crawler_wait" /\ pc' = "crawler_head"
    \/ pc = "crawler_parse" /\ captured_responses[1].kind # "detail"

\* C38: in tools/crawler.py the records buffered and written number at most
\* min(len(cards), max_count); the cards clicked are distinct; a card that times
\* out or fails leaves count alone and the loop goes on with the next card.
C38_CrawlerQuota ==
    /\ [](pc \notin {"crawler_cards", "crawler_raised"} =>
            /\ max_jobs = Min(cards, max_count)
            /\ count = Len(jobs_buffer)
            /\ Len(jobs_buffer) <= Min(cards, max_count)
            /\ Len(csv.rows) <= Min(cards, max_count)
            /\ pc = "crawler_returned" => csv.rows = jobs_buffer)
    /\ [](\A i, j \in 1..Len(clicked) : i < j => clicked[i] < clicked[j])
    /\ [][ CrawlerCardSkipped =>
             /\ count' = count /\ jobs_buffer' = jobs_buffer
             /\ cardIdx' = cardIdx + 1 /\ pc' = "crawler_head" ]_vars

C38_Witness ==
    /\ pc = "crawler_returned" /\ cards = 3 /\ max_count = 2
    /\ clicked = <<1, 2, 3>>              \* one of the cards was skipped
    /\ Len(csv.rows) = 2

\* the keys of a sequence
Keys(order) == {order[i] : i \in 1..Len(order)}

\* C39: module_order always holds each of the 7 default keys once; the button
\* pressed was never the move-up of the first row nor the move-down of the last
\* row; after a reset module_order is the default order.
C39_OrderIsPermutation ==
    /\ Len(module_order) = 7
    /\ Keys(module_order) = Keys(DEFAULT_MODULE_ORDER)
    /\ Cardinality(Keys(module_order)) = 7
    /\ pressed.kind = "up" => pressed.idx \in 1..6
    /\ pressed.kind = "down" => pressed.idx \in 0..5
    /\ pressed.kind = "reset" => module_order = DEFAULT_MODULE_ORDER

C39_Witness ==
    /\ pressed = [kind |-> "down", idx |-> 5]
    /\ module_order[1] = "awards"       \* moved up from the last row to the first
    /\ module_order[7] = "personalSummary"

\* the items of a --jobs string that are not blank, without their white space,
\* in the order of the string
NamedItems(raw) ==
    LET named == SelectSeq(raw.items,
                           LAMBDA item : \E i \in 1..Len(item) : item[i] # " ")
    IN  [i \in 1..Len(named) |-> SelectSeq(named[i], LAMBDA a : a # " ")[1]]

\* C40: when parse_job_names has returned, job_names holds every key of
\* job_dict once if --jobs was missing or empty, and otherwise the non-blank
\* items of --jobs, trimmed, in their order with their repetitions; each name is
\* a key of job_dict and its search URL carries the code mapped to it.
C40_ParsedNames ==
    runPc = "main_done" =>
        /\ (~raw_jobs.given \/ raw_jobs.items = << <<>> >>) =>
              /\ Keys(job_names) = DOMAIN job_dict
              /\ Len(job_names) = Cardinality(DOMAIN job_dict)
        /\ (raw_jobs.given /\ raw_jobs.items # << <<>> >>) =>
              job_names = NamedItems(raw_jobs)
        /\ \A i \in 1..Len(job_names) :
              /\ job_names[i] \in DOMAIN job_dict
              /\ get_job_url([job |-> job_names[i]], "100010000", "1901").position
                    = job_dict[job_names[i]]

C40_Witness ==
    /\ runPc = "main_done"
    /\ raw_jobs.given
    /\ raw_jobs.items = << <<" ", "Python", " ">>, <<" ">> >>
    /\ job_names = <<"Python">>

=============================================================================
